---- MODULE Spec2Model ----
(***************************************************************************)
(* Schema resolution of followthemoney (src/followthemoney/schema.py):     *)
(* Schema.__init__, Schema.generate, Schema._add_reverse, Schema.get,      *)
(* Schema.validate, Schema.to_dict and Schema.matchable_schemata, over     *)
(* small families of model definitions.  Property and Model are not part   *)
(* of the source tree; their few operations used by Schema are modelled    *)
(* from the specification.                                                 *)
(***************************************************************************)
EXTENDS Naturals, Sequences, FiniteSets, TLC

VARIABLES
    data,         \* Schema.data of every schema of the model (raw configuration)
    properties,   \* Schema.properties: insertion-ordered mapping name -> Property
    schemata,     \* Schema.schemata
    names,        \* Schema.names
    descendants,  \* Schema.descendants
    extends,      \* Schema.extends
    resolved,     \* history: schemas on which generate() has returned normally
    raised,       \* the exception the last top-level call ended with, if any
    returned      \* what the last to_dict or matchable_schemata call produced

vars == <<data, properties, schemata, names, descendants, extends, resolved,
          raised, returned>>

----------------------------------------------------------------------------
(* Bounds of the family of model definitions. *)

\* properties declared in the whole model definition
MaxDeclared == 2
\* depth of nested generate() calls the interpreter allows
MaxDepth == 6

Schemas == {"Thing", "A", "B", "X"}
Names == {"p", "n"}
\* the name every declared reverse link gives to the back-reference
ReverseName == "n"
\* the schemas a declared reverse link may refer to
RangeTargets == {"Thing", "A"}
\* the order in which a schema's configuration lists its properties
NameOrders == {<<"p", "n">>, <<"n", "p">>}

None == "None"
\* a property whose configuration has no 'reverse' entry
NoReverse == "NoReverse"

----------------------------------------------------------------------------
(* Property objects.  A Property is owned by one schema; schema and name   *)
(* identify the object.  range is "None" when the property refers to no    *)
(* schema; reverse is NoReverse without reverse metadata, and otherwise    *)
(* the metadata's 'name' ("None" when it has none).                        *)

NoneProp == [schema |-> None, name |-> None, stub |-> FALSE,
             range |-> None, reverse |-> NoReverse]

Property(schema, name, pdata) ==
    [schema |-> schema, name |-> name, stub |-> pdata.stub,
     range |-> pdata.range, reverse |-> pdata.reverse]

\* errors is the errors attribute of an InvalidData, empty otherwise
NoErr == [kind |-> None, what |-> None, schema |-> None, errors |-> <<>>]

Raise(h, kind, what, schema) ==
    [h EXCEPT !.err = [kind |-> kind, what |-> what, schema |-> schema,
                       errors |-> <<>>]]

\* InvalidModel and the failures of the interpreter itself
InvalidModel(h, what, schema) == Raise(h, "InvalidModel", what, schema)

----------------------------------------------------------------------------
(* Dictionaries in insertion order: a sequence of Property, names unique.  *)

Keys(ps) == {ps[i].name : i \in 1..Len(ps)}

DictGet(ps, name) ==
    LET idx == {i \in 1..Len(ps) : ps[i].name = name}
    IN  IF idx = {} THEN NoneProp ELSE ps[CHOOSE i \in idx : TRUE]

DictSet(ps, name, prop) ==
    IF name \in Keys(ps)
    THEN [i \in 1..Len(ps) |-> IF ps[i].name = name THEN prop ELSE ps[i]]
    ELSE Append(ps, prop)

\* the mapping as a set of its values (each value carries its own name)
Items(ps) == {ps[i] : i \in 1..Len(ps)}

----------------------------------------------------------------------------
(* Model.get: the registry lookup, absent for an unknown name. *)

Model_get(name) == IF name \in DOMAIN data THEN name ELSE None

\* Schema.get
get(h, schema, name) == DictGet(h.properties[schema], name)

----------------------------------------------------------------------------
(* Schema.__init__ (the part resolution reads).  The raw configuration     *)
(* data[s] is a record                                                     *)
(*   extends    : sequence of parent names (ensure_list of 'extends')      *)
(*   properties : sequence of [name, range, reverse], in declaration order *)
(*   featured, caption, required : sequences of property names            *)
(*   edge       : [source, target], each a name or "None"                  *)
(*   matchable  : BOOLEAN                                                  *)

featured(schema) == data[schema].featured
required(schema) == data[schema].required
caption(schema) == data[schema].caption
edge_source(schema) == data[schema].edge.source
edge_target(schema) == data[schema].edge.target

\* self.edge = self.edge_source and self.edge_target
edge(schema) == edge_source(schema) # None /\ edge_target(schema) # None

\* the properties dictionary built by the constructor's loop
InitProperties(d, schema) ==
    [i \in 1..Len(d.properties) |->
        Property(schema, d.properties[i].name,
                 [stub |-> FALSE, range |-> d.properties[i].range,
                  reverse |-> d.properties[i].reverse])]

\* the heap right after every Schema of the model has been constructed
Constructed(d) ==
    [properties  |-> [s \in DOMAIN d |-> InitProperties(d[s], s)],
     schemata    |-> [s \in DOMAIN d |-> {s}],
     names       |-> [s \in DOMAIN d |-> {s}],
     descendants |-> [s \in DOMAIN d |-> {}],
     extends     |-> [s \in DOMAIN d |-> {}],
     resolved    |-> {},
     err         |-> NoErr]

----------------------------------------------------------------------------
(* Property.generate and Schema._add_reverse.                              *)

RECURSIVE Property_generate(_, _)
RECURSIVE add_reverse(_, _, _, _)

\* Property.generate: an entity-valued property with declared reverse
\* metadata asks the schema it refers to for the paired reverse property.
Property_generate(h, prop) ==
    IF prop.reverse # NoReverse /\ Model_get(prop.range) # None
    THEN add_reverse(h, Model_get(prop.range), prop.reverse, prop).h
    ELSE h

\* the data fragment after data.update(...) in _add_reverse
ReverseData(other) ==
    [stub |-> TRUE, range |-> other.schema, reverse |-> other.name]

\* _add_reverse without the lookup of an existing property: a new stub
\* always takes the name
add_reverse_overwrite(h, schema, name, other) ==
    IF name = None
    THEN [h |-> InvalidModel(h, "Unnamed reverse", schema), ret |-> NoneProp]
    ELSE LET new == Property(schema, name, ReverseData(other))
         IN  [h |-> [h EXCEPT !.properties[schema] = DictSet(@, name, new)],
              ret |-> new]

\* _add_reverse that creates the stub as a property of the calling
\* property's schema
add_reverse_foreign(h, schema, name, other) ==
    IF name = None
    THEN [h |-> InvalidModel(h, "Unnamed reverse", schema), ret |-> NoneProp]
    ELSE LET prop == get(h, schema, name) IN
         IF prop # NoneProp
         THEN [h |-> h, ret |-> prop]
         ELSE LET new == Property(other.schema, name, ReverseData(other))
                  h1  == Property_generate(h, new)
              IN  IF h1.err # NoErr
                  THEN [h |-> h1, ret |-> NoneProp]
                  ELSE [h |-> [h1 EXCEPT !.properties[schema] =
                                            DictSet(@, name, new)],
                        ret |-> new]

\* Schema._add_reverse(data, other) with name = data.get('name');
\* the result is the heap and the property returned
add_reverse(h, schema, name, other) ==
    IF name = None
    THEN [h |-> InvalidModel(h, "Unnamed reverse", schema), ret |-> NoneProp]
    ELSE LET prop == get(h, schema, name) IN
         IF prop # NoneProp
         THEN [h |-> h, ret |-> prop]
         ELSE LET new == Property(schema, name, ReverseData(other))
                  h1  == Property_generate(h, new)
              IN  IF h1.err # NoErr
                  THEN [h |-> h1, ret |-> NoneProp]
                  ELSE [h |-> [h1 EXCEPT !.properties[schema] =
                                            DictSet(@, name, new)],
                        ret |-> new]

----------------------------------------------------------------------------
(* Schema.generate.                                                        *)

\* the merge without its test `name not in self.properties`
merge_overwrite(own, inherited) ==
    LET RECURSIVE copy(_, _)
        copy(ps, i) ==
            IF i > Len(inherited) THEN ps
            ELSE copy(DictSet(ps, inherited[i].name, inherited[i]), i + 1)
    IN  copy(own, 1)

\* lines 75-77: copy the parent's properties this schema has no name for
merge(own, inherited) ==
    LET RECURSIVE copy(_, _)
        copy(ps, i) ==
            IF i > Len(inherited) THEN ps
            ELSE copy(IF inherited[i].name \in Keys(ps)
                      THEN ps
                      ELSE DictSet(ps, inherited[i].name, inherited[i]),
                      i + 1)
    IN  copy(own, 1)

\* the parent alone is taken into schemata and names, not its ancestors
inherit_shallow(h, schema, parent) ==
    LET ancestors == h.schemata[parent] IN
    [h EXCEPT !.extends[schema] = @ \cup {parent},
              !.schemata[schema] = @ \cup {parent},
              !.names[schema] = @ \cup {parent},
              !.descendants = [a \in DOMAIN @ |->
                                  IF a \in ancestors THEN @[a] \cup {schema}
                                  ELSE @[a]]]

\* the schema registers as a descendant of its parent alone
inherit_unregistered(h, schema, parent) ==
    LET ancestors == h.schemata[parent] IN
    [h EXCEPT !.extends[schema] = @ \cup {parent},
              !.schemata[schema] = @ \cup ancestors,
              !.names[schema] = @ \cup ancestors,
              !.descendants[parent] = @ \cup {schema}]

\* schemata and names are replaced by the parent's, not extended
inherit_replace(h, schema, parent) ==
    LET ancestors == h.schemata[parent] IN
    [h EXCEPT !.extends[schema] = @ \cup {parent},
              !.schemata[schema] = ancestors,
              !.names[schema] = ancestors,
              !.descendants = [a \in DOMAIN @ |->
                                  IF a \in ancestors THEN @[a] \cup {schema}
                                  ELSE @[a]]]

\* the schema registers with every member of its own schemata, itself
\* included
inherit_with_self(h, schema, parent) ==
    LET ancestors == h.schemata[parent] IN
    [h EXCEPT !.extends[schema] = @ \cup {parent},
              !.schemata[schema] = @ \cup ancestors,
              !.names[schema] = @ \cup ancestors,
              !.descendants = [a \in DOMAIN @ |->
                                  IF a \in ancestors \cup {schema}
                                  THEN @[a] \cup {schema}
                                  ELSE @[a]]]

\* lines 79-83: record the parent, take over its ancestors, register with them
inherit(h, schema, parent) ==
    LET ancestors == h.schemata[parent] IN
    [h EXCEPT !.extends[schema] = @ \cup {parent},
              !.schemata[schema] = @ \cup ancestors,
              !.names[schema] = @ \cup ancestors,
              !.descendants = [a \in DOMAIN @ |->
                                  IF a \in ancestors THEN @[a] \cup {schema}
                                  ELSE @[a]]]

\* lines 85-86: prop.generate() for every property in list(self.properties.values())
RECURSIVE generate_properties(_, _, _)
generate_properties(h, props, i) ==
    IF i > Len(props) THEN h
    ELSE LET h1 == Property_generate(h, props[i]) IN
         IF h1.err # NoErr THEN h1 ELSE generate_properties(h1, props, i + 1)

\* the first name of a list that get() does not resolve, or "None"
Missing(h, schema, listed) ==
    LET idx == {i \in 1..Len(listed) : get(h, schema, listed[i]) = NoneProp}
    IN  IF idx = {} THEN None
        ELSE listed[CHOOSE i \in idx : \A j \in idx : i <= j]

\* the checks without the loop over self.required
checks_skip_required(h, schema) ==
    IF Missing(h, schema, featured(schema)) # None
        THEN InvalidModel(h, "Missing featured property", schema)
    ELSE IF Missing(h, schema, caption(schema)) # None
        THEN InvalidModel(h, "Missing caption property", schema)
    ELSE IF edge(schema) /\ get(h, schema, edge_source(schema)) = NoneProp
        THEN InvalidModel(h, "Missing edge source", schema)
    ELSE IF edge(schema) /\ get(h, schema, edge_target(schema)) = NoneProp
        THEN InvalidModel(h, "Missing edge target", schema)
    ELSE h

\* the checks without the test of self.target_prop
checks_skip_edge_target(h, schema) ==
    IF Missing(h, schema, featured(schema)) # None
        THEN InvalidModel(h, "Missing featured property", schema)
    ELSE IF Missing(h, schema, caption(schema)) # None
        THEN InvalidModel(h, "Missing caption property", schema)
    ELSE IF Missing(h, schema, required(schema)) # None
        THEN InvalidModel(h, "Missing required property", schema)
    ELSE IF edge(schema) /\ get(h, schema, edge_source(schema)) = NoneProp
        THEN InvalidModel(h, "Missing edge source", schema)
    ELSE h

\* lines 88-107: the consistency checks, in the order of the code
checks(h, schema) ==
    IF Missing(h, schema, featured(schema)) # None
        THEN InvalidModel(h, "Missing featured property", schema)
    ELSE IF Missing(h, schema, caption(schema)) # None
        THEN InvalidModel(h, "Missing caption property", schema)
    ELSE IF Missing(h, schema, required(schema)) # None
        THEN InvalidModel(h, "Missing required property", schema)
    ELSE IF edge(schema) /\ get(h, schema, edge_source(schema)) = NoneProp
        THEN InvalidModel(h, "Missing edge source", schema)
    ELSE IF edge(schema) /\ get(h, schema, edge_target(schema)) = NoneProp
        THEN InvalidModel(h, "Missing edge target", schema)
    ELSE h

RECURSIVE generate(_, _, _)
RECURSIVE generate_parents(_, _, _, _)
RECURSIVE resolve(_, _, _)

\* the loop with a guard that skips a schema named as its own parent
generate_parents_skip_self(h, schema, i, depth) ==
    LET ext == data[schema].extends IN
    IF i > Len(ext) THEN h
    ELSE LET parent == Model_get(ext[i]) IN
         IF parent = None
         THEN Raise(h, "AttributeError", "generate", schema)
         ELSE IF parent = schema
         THEN generate_parents(h, schema, i + 1, depth)
         ELSE LET h1 == generate(h, parent, depth + 1) IN
              IF h1.err # NoErr THEN h1
              ELSE LET h2 == [h1 EXCEPT !.properties[schema] =
                                     merge(@, h1.properties[parent])]
                   IN  generate_parents(inherit(h2, schema, parent),
                                        schema, i + 1, depth)

\* lines 71-83: the loop over ensure_list(self.data.get('extends')), from
\* its i-th element
generate_parents(h, schema, i, depth) ==
    LET ext == data[schema].extends IN
    IF i > Len(ext) THEN h
    ELSE LET parent == Model_get(ext[i]) IN
         IF parent = None
         THEN \* parent.generate() on the absent value
              Raise(h, "AttributeError", "generate", schema)
         ELSE LET h1 == generate(h, parent, depth + 1) IN
              IF h1.err # NoErr THEN h1
              ELSE LET h2 == [h1 EXCEPT !.properties[schema] =
                                     merge(@, h1.properties[parent])]
                   IN  generate_parents(inherit(h2, schema, parent),
                                        schema, i + 1, depth)

\* lines 71-86: the parents, then the properties
resolve(h, schema, depth) ==
    LET h1 == generate_parents(h, schema, 1, depth) IN
    IF h1.err # NoErr THEN h1
    ELSE generate_properties(h1, h1.properties[schema], 1)

\* generate that restores the state it started from when a check fails
generate_rollback(h, schema, depth) ==
    IF depth > MaxDepth
    THEN Raise(h, "RecursionError", "generate", schema)
    ELSE LET h2 == resolve(h, schema, depth) IN
         IF h2.err # NoErr THEN h2
         ELSE LET h3 == checks(h2, schema) IN
              IF h3.err # NoErr THEN [h EXCEPT !.err = h3.err]
              ELSE [h3 EXCEPT !.resolved = @ \cup {schema}]

\* Schema.generate, nested `depth` calls deep; a call that returns
\* normally is recorded in resolved
generate(h, schema, depth) ==
    IF depth > MaxDepth
    THEN Raise(h, "RecursionError", "generate", schema)
    ELSE LET h2 == resolve(h, schema, depth) IN
         IF h2.err # NoErr THEN h2
         ELSE LET h3 == checks(h2, schema) IN
              IF h3.err # NoErr THEN h3
              ELSE [h3 EXCEPT !.resolved = @ \cup {schema}]

----------------------------------------------------------------------------
(* Schema.validate.  The argument is modelled by its 'properties'          *)
(* sub-mapping (empty for data without one): a function from the names     *)
(* the input supplies to the list of values of each.                       *)

\* a value the property's kind rejects
Bad == "bad"

\* ensure_list(properties.get(name)): no values for a name not supplied
ensure_list(input, name) ==
    IF name \in DOMAIN input THEN input[name] ELSE <<>>

\* Property.validate(values): the error of the property's kind, if any
Property_validate(prop, values) ==
    IF \E i \in 1..Len(values) : values[i] = Bad
    THEN "Invalid value" ELSE None

\* the names of a list
ListedNames(listed) == {listed[i] : i \in 1..Len(listed)}

\* the test without `not len(values)`: a required property is reported
\* whatever was supplied
validate_error_ignores_values(h, schema, prop, values) ==
    LET error == Property_validate(prop, values) IN
    IF error = None /\ prop.name \in ListedNames(required(schema))
    THEN "Required" ELSE error

\* the test against the required lists of every schema of self.schemata
validate_error_inherited(h, schema, prop, values) ==
    LET error == Property_validate(prop, values) IN
    IF /\ error = None /\ Len(values) = 0
       /\ \E s \in h.schemata[schema] :
             prop.name \in ListedNames(required(s))
    THEN "Required" ELSE error

\* lines 188-191: the error recorded for one property, or "None"
validate_error(h, schema, prop, values) ==
    LET error == Property_validate(prop, values) IN
    IF /\ error = None /\ Len(values) = 0
       /\ prop.name \in ListedNames(required(schema))
    THEN "Required" ELSE error

\* errors[name] = error
SetError(errors, name, error) ==
    [n \in DOMAIN errors \cup {name} |->
        IF n = name THEN error ELSE errors[n]]

\* lines 186-193: the loop over self.properties.items(), from its i-th item
RECURSIVE validate_errors(_, _, _, _, _)
validate_errors(h, schema, input, i, errors) ==
    LET ps == h.properties[schema] IN
    IF i > Len(ps) THEN errors
    ELSE LET error == validate_error(h, schema, ps[i],
                                     ensure_list(input, ps[i].name))
         IN  validate_errors(h, schema, input, i + 1,
                 IF error # None THEN SetError(errors, ps[i].name, error)
                 ELSE errors)

InvalidData(h, errors, schema) ==
    [h EXCEPT !.err = [kind |-> "InvalidData",
                       what |-> "Entity validation failed",
                       schema |-> schema, errors |-> errors]]

\* Schema.validate(data): the heap is left alone, the outcome is its err
validate(h, schema, input) ==
    LET errors == validate_errors(h, schema, input, 1, <<>>) IN
    IF DOMAIN errors # {} THEN InvalidData(h, errors, schema) ELSE h

----------------------------------------------------------------------------
(* Schema.to_dict and Schema.matchable_schemata.                           *)

\* no dictionary
NoDict == [schemata |-> <<>>, extends |-> <<>>, properties |-> <<>>,
           keys |-> {}]

matchable(schema) == data[schema].matchable

\* sorted(...) of a set of schema names
SortedNames == <<"A", "B", "Thing", "X">>
sorted(set) == SelectSeq(SortedNames, LAMBDA s : s \in set)

\* Property.to_dict: the property's name and configuration
Property_to_dict(prop) ==
    [name |-> prop.name, range |-> prop.range, reverse |-> prop.reverse,
     stub |-> prop.stub]

\* the keys to_dict emits only for a value that is set
SparseKeys(schema) ==
    {k \in {"edge", "featured", "required", "caption", "matchable"} :
        CASE k = "edge" -> edge_source(schema) # None
                              /\ edge_target(schema) # None
          [] k = "featured" -> Len(featured(schema)) > 0
          [] k = "required" -> Len(required(schema)) > 0
          [] k = "caption" -> Len(caption(schema)) > 0
          [] k = "matchable" -> matchable(schema)}

\* the loop of lines 228-230 without the test of the owner
to_dict_properties_all(h, schema) ==
    [i \in 1..Len(h.properties[schema]) |->
        Property_to_dict(h.properties[schema][i])]

\* lines 228-230: data['properties'], the serialization of every property
\* whose schema is this one, in the order of self.properties
to_dict_properties(h, schema) ==
    LET own == SelectSeq(h.properties[schema],
                         LAMBDA prop : prop.schema = schema)
    IN  [i \in 1..Len(own) |-> Property_to_dict(own[i])]

\* Schema.to_dict
to_dict(h, schema) ==
    [schemata |-> sorted(h.names[schema]),
     extends |-> sorted(h.extends[schema]),
     properties |-> to_dict_properties(h, schema),
     keys |-> SparseKeys(schema)]

\* the generator without its first test, of self.matchable
matchable_schemata_unguarded(h, schema) ==
    {s \in h.schemata[schema] \cup h.descendants[schema] : matchable(s)}

\* Schema.matchable_schemata: the schemas the generator yields
matchable_schemata(h, schema) ==
    IF ~matchable(schema) THEN {}
    ELSE {s \in h.schemata[schema] \cup h.descendants[schema] : matchable(s)}

----------------------------------------------------------------------------
(* Model.generate: one load pass, generate() once on every schema in the   *)
(* given order; the first error ends the pass.                             *)

RECURSIVE LoadFrom(_, _, _)
LoadFrom(h, order, i) ==
    IF i > Len(order) THEN h
    ELSE LET h1 == generate(h, order[i], 1) IN
         IF h1.err # NoErr THEN h1 ELSE LoadFrom(h1, order, i + 1)

Orders ==
    {o \in [1..Cardinality(Schemas) -> Schemas] :
        \A i, j \in DOMAIN o : i # j => o[i] # o[j]}

----------------------------------------------------------------------------
(* The family of model definitions the initial states are drawn from.      *)

NoEdge == [source |-> None, target |-> None]

\* inheritance shapes: a diamond, a chain beside an unrelated schema
\* (Thing <- A <- B, as Thing <- LegalEntity <- Person), and a parent name
\* the model does not know
Diamond == [s \in Schemas |-> CASE s = "A" -> <<"Thing">>
                                 [] s = "B" -> <<"Thing">>
                                 [] s = "X" -> <<"A", "B">>
                                 [] OTHER -> <<>>]
Chain == [s \in Schemas |-> CASE s = "A" -> <<"Thing">>
                               [] s = "B" -> <<"A">>
                               [] OTHER -> <<>>]
Unknown == [s \in Schemas |-> IF s = "X" THEN <<"A", "Ghost">> ELSE <<>>]

Shapes == {Diamond, Chain, Unknown}

\* one declared property: its schema, its name, the schema it refers to
\* and its reverse metadata
Decl(declaring) ==
    {[schema |-> s, name |-> n, range |-> None, reverse |-> NoReverse] :
        s \in declaring, n \in Names}
    \cup
    {[schema |-> s, name |-> n, range |-> r, reverse |-> ReverseName] :
        s \in declaring, n \in Names, r \in RangeTargets}

RECURSIVE SubsetsUpTo(_, _)
SubsetsUpTo(S, k) ==
    IF k = 0 THEN {{}}
    ELSE LET smaller == SubsetsUpTo(S, k - 1)
         IN  smaller \cup {t \cup {x} : t \in smaller, x \in S}

\* at most maxDeclared declarations, no two of one name on one schema
Declarations(decls, maxDeclared) ==
    {ds \in SubsetsUpTo(decls, maxDeclared) :
        \A d, e \in ds : (d.schema = e.schema /\ d.name = e.name) => d = e}

\* data[s].properties: the declarations of s in the order of `order`
DeclaredProperties(ds, s, order) ==
    LET present == SelectSeq(order,
                       LAMBDA n : \E d \in ds : d.schema = s /\ d.name = n)
    IN  [i \in 1..Len(present) |->
            LET d == CHOOSE d \in ds : d.schema = s /\ d.name = present[i]
            IN  [name |-> d.name, range |-> d.range, reverse |-> d.reverse]]

\* the lists and the edge block of one schema's configuration
NoChecks == [schema |-> None, featured |-> <<>>, caption |-> <<>>,
             required |-> <<>>, edge |-> NoEdge]

ModelData(shape, ds, order, chk) ==
    [s \in Schemas |->
        [extends |-> shape[s],
         properties |-> DeclaredProperties(ds, s, order),
         featured |-> IF s = chk.schema THEN chk.featured ELSE <<>>,
         caption |-> IF s = chk.schema THEN chk.caption ELSE <<>>,
         required |-> IF s = chk.schema THEN chk.required ELSE <<>>,
         edge |-> IF s = chk.schema THEN chk.edge ELSE NoEdge,
         matchable |-> TRUE]]

\* the model definitions of Spec: inheritance and reverse links
Models ==
    {ModelData(shape, ds, order, NoChecks) :
        shape \in Shapes, ds \in Declarations(Decl(Schemas), MaxDeclared),
        order \in NameOrders}

\* the model definitions of SpecChecks: the chain, with lists or an edge
\* block on schema A; Thing and A declare properties, and the unrelated X
\* may declare a property that refers to A, its reverse metadata with a
\* name or without one
Listed == {<<"p">>, <<"n">>}
EdgeEnds == Names \cup {None}
CheckedSchema == "A"
Checks ==
    {[NoChecks EXCEPT !.schema = CheckedSchema, !.featured = l] : l \in Listed}
    \cup
    {[NoChecks EXCEPT !.schema = CheckedSchema, !.caption = l] : l \in Listed}
    \cup
    {[NoChecks EXCEPT !.schema = CheckedSchema, !.required = l] : l \in Listed}
    \cup
    {[NoChecks EXCEPT !.schema = CheckedSchema,
                      !.edge = [source |-> a, target |-> b]] :
        a \in EdgeEnds, b \in EdgeEnds}
Named == [schema |-> "X", name |-> "p", range |-> CheckedSchema,
          reverse |-> ReverseName]
Unnamed == [Named EXCEPT !.reverse = None]
CheckedModels ==
    {ModelData(Chain, ds, order, chk) :
        ds \in Declarations(Decl({"Thing", "A"}) \cup {Named, Unnamed},
                            MaxDeclared),
        order \in NameOrders, chk \in Checks}

\* the model definitions of SpecValidate: the chain; Thing declares
\* properties, with reverse links or without, A declares properties without,
\* and A lists one name as required
Required ==
    {[NoChecks EXCEPT !.schema = CheckedSchema, !.required = l] : l \in Listed}
ValidatedDecl ==
    {d \in Decl({"Thing", "A"}) : d.schema = "A" => d.reverse = NoReverse}
ValidatedModels ==
    {ModelData(Chain, ds, order, chk) :
        ds \in Declarations(ValidatedDecl, MaxDeclared),
        order \in NameOrders, chk \in Required}

\* inheritance with a cycle: a schema that extends itself, one that does so
\* after a parent of its own, two schemas that extend each other, and a
\* cycle of two below a root
SelfLoop == [s \in Schemas |-> CASE s = "A" -> <<"Thing">>
                                  [] s = "X" -> <<"X">>
                                  [] OTHER -> <<>>]
LateLoop == [s \in Schemas |-> CASE s = "A" -> <<"Thing">>
                                  [] s = "X" -> <<"A", "X">>
                                  [] OTHER -> <<>>]
TwoCycle == [s \in Schemas |-> CASE s = "A" -> <<"B">>
                                  [] s = "B" -> <<"A">>
                                  [] OTHER -> <<>>]
RootedCycle == [s \in Schemas |-> CASE s = "A" -> <<"Thing", "B">>
                                     [] s = "B" -> <<"A">>
                                     [] OTHER -> <<>>]
CyclicShapes == {SelfLoop, LateLoop, TwoCycle, RootedCycle}

\* the model definitions of SpecCyclic: Thing and A declare properties as
\* in SpecValidate and A may list a name as required
CyclicModels ==
    {ModelData(shape, ds, order, chk) :
        shape \in CyclicShapes,
        ds \in Declarations(ValidatedDecl, MaxDeclared),
        order \in NameOrders, chk \in Required \cup {NoChecks}}

\* the model definitions of SpecDict: the diamond and the chain, Thing and B
\* declare properties
DictModels ==
    {ModelData(shape, ds, order, NoChecks) :
        shape \in {Diamond, Chain},
        ds \in Declarations(Decl({"Thing", "B"}), MaxDeclared),
        order \in NameOrders}

\* the model definitions of SpecMatch: the diamond and the chain with any
\* schemas flagged as not matchable; X may declare a property referring to A
MatchModels ==
    {[s \in Schemas |->
         [ModelData(shape, ds, order, NoChecks)[s]
             EXCEPT !.matchable = s \notin unmatchable] ] :
        shape \in {Diamond, Chain},
        ds \in Declarations({Named}, MaxDeclared),
        order \in NameOrders, unmatchable \in SUBSET Schemas}

\* the inputs of validate: values for some names, properties or not
InputNames == Names \cup {"unknownField"}
InputValues == {<<"ok">>, <<Bad>>}
Inputs == UNION {[D -> InputValues] : D \in SUBSET InputNames}

----------------------------------------------------------------------------
(* The state machine.                                                      *)

Heap ==
    [properties |-> properties, schemata |-> schemata, names |-> names,
     descendants |-> descendants, extends |-> extends,
     resolved |-> resolved, err |-> NoErr]

\* no query has produced a value
NoReturn == [op |-> None, schema |-> None, dict |-> NoDict, matchable |-> {}]

Store(h) ==
    /\ properties' = h.properties
    /\ schemata' = h.schemata
    /\ names' = h.names
    /\ descendants' = h.descendants
    /\ extends' = h.extends
    /\ resolved' = h.resolved

InitWith(d) ==
    /\ data = d
    /\ properties = Constructed(d).properties
    /\ schemata = Constructed(d).schemata
    /\ names = Constructed(d).names
    /\ descendants = Constructed(d).descendants
    /\ extends = Constructed(d).extends
    /\ resolved = {}
    /\ raised = NoErr
    /\ returned = NoReturn

Init == \E d \in Models : InitWith(d)
InitChecks == \E d \in CheckedModels : InitWith(d)

\* a top-level call of schema.generate()
Generate(schema) ==
    LET h == generate(Heap, schema, 1) IN
    /\ Store(h)
    /\ raised' = h.err
    /\ returned' = NoReturn
    /\ UNCHANGED data

\* the properties that exist: values of some schema's properties
Existing == UNION {Items(properties[s]) : s \in DOMAIN properties}

\* a call of schema._add_reverse(data, other) as Property.generate makes it:
\* other refers to schema, data is its reverse metadata and name the name
\* the metadata gives ("None" when it gives none)
AddReverse(schema, name, other) ==
    LET r == add_reverse(Heap, schema, name, other) IN
    /\ other.range = schema
    /\ other.reverse = name
    /\ Store(r.h)
    /\ raised' = r.h.err
    /\ returned' = NoReturn
    /\ UNCHANGED data

\* the load pass of a freshly constructed model, in some order
Load(order) ==
    /\ Heap = Constructed(data)
    /\ LET h == LoadFrom(Heap, order, 1) IN
        /\ Store(h)
        /\ raised' = h.err
    /\ returned' = NoReturn
    /\ UNCHANGED data

\* a call of schema.validate(data)
Validate(schema, input) ==
    LET h == validate(Heap, schema, input) IN
    /\ raised' = h.err
    /\ returned' = NoReturn
    /\ UNCHANGED <<data, properties, schemata, names, descendants, extends,
                   resolved>>

\* a call of schema.to_dict()
ToDict(schema) ==
    /\ returned' = [NoReturn EXCEPT !.op = "to_dict", !.schema = schema,
                                     !.dict = to_dict(Heap, schema)]
    /\ raised' = NoErr
    /\ UNCHANGED <<data, properties, schemata, names, descendants, extends,
                   resolved>>

\* a full iteration of schema.matchable_schemata
MatchableSchemata(schema) ==
    /\ returned' = [NoReturn EXCEPT !.op = "matchable_schemata",
                                     !.schema = schema,
                                     !.matchable =
                                         matchable_schemata(Heap, schema)]
    /\ raised' = NoErr
    /\ UNCHANGED <<data, properties, schemata, names, descendants, extends,
                   resolved>>

Next ==
    \/ \E schema \in Schemas : Generate(schema)
    \/ \E schema \in Schemas, name \in Names \cup {None}, other \in Existing :
          AddReverse(schema, name, other)

NextLoad ==
    \/ Next
    \/ \E order \in Orders : Load(order)

Spec == Init /\ [][Next]_vars
SpecLoad == Init /\ [][NextLoad]_vars
SpecChecks == InitChecks /\ [][Next]_vars

InitCyclic == \E d \in CyclicModels : InitWith(d)
SpecCyclic == InitCyclic /\ [][Next]_vars

InitDict == \E d \in DictModels : InitWith(d)
NextDict ==
    \/ Next
    \/ \E schema \in Schemas : ToDict(schema)
SpecDict == InitDict /\ [][NextDict]_vars

InitMatch == \E d \in MatchModels : InitWith(d)
NextMatch ==
    \/ Next
    \/ \E schema \in Schemas : MatchableSchemata(schema)
SpecMatch == InitMatch /\ [][NextMatch]_vars

InitValidate == \E d \in ValidatedModels : InitWith(d)
NextValidate ==
    \/ Next
    \/ \E schema \in Schemas, input \in Inputs : Validate(schema, input)
SpecValidate == InitValidate /\ [][NextValidate]_vars

----------------------------------------------------------------------------
(* What the claims speak about.                                            *)

\* the declared parents of a schema that the model knows
Parents(schema) ==
    {data[schema].extends[i] : i \in 1..Len(data[schema].extends)}
        \cap DOMAIN data

RECURSIVE Closure(_, _)
Closure(set, k) ==
    IF k = 0 THEN set
    ELSE Closure(set \cup UNION {Parents(s) : s \in set}, k - 1)

\* the schemas reachable from schema by one or more extends steps
Ancestors(schema) == Closure(Parents(schema), Cardinality(DOMAIN data))

\* the names schema declares in its own configuration
DeclaredNames(schema) ==
    {data[schema].properties[i].name : i \in 1..Len(data[schema].properties)}

\* properties, schemata and descendants of one schema in a heap
View(h, schema) ==
    [properties |-> Items(h.properties[schema]),
     schemata |-> h.schemata[schema],
     descendants |-> h.descendants[schema]]

\* the same for every schema
FullView(h) == [s \in Schemas |-> View(h, s)]

\* C1: generate() is idempotent: when generate() on S has returned without
\* error, invoking it on S again right away returns without error and leaves
\* S.properties, S.schemata and S.descendants with the same contents.
C1_GenerateIdempotent ==
    [][\A S \in Schemas :
          (Generate(S) /\ raised' = NoErr) =>
              LET again == generate(Heap', S, 1)
              IN  /\ again.err = NoErr
                  /\ View(again, S) = View(Heap', S)]_vars

\* C2: a load pass that calls generate() once on every schema ends with the
\* same properties, schemata and descendants of every schema whatever the
\* order of the calls, and raises InvalidModel in one order only if it does
\* in every order.
C2_LoadOrderIndependent ==
    [][\A o1 \in Orders :
          Load(o1) =>
              \A o2 \in Orders :
                  LET other == LoadFrom(Heap, o2, 1)
                  IN  /\ (raised'.kind = "InvalidModel")
                            <=> (other.err.kind = "InvalidModel")
                      /\ (raised' = NoErr /\ other.err = NoErr)
                            => FullView(other) = FullView(Heap')]_vars

\* C3: leftmost parent wins: when X extends [A, B], declares no property p
\* itself, has been resolved, and A and B both have a property named p with
\* different definitions, X.properties[p] is A.properties[p].
C3_LeftmostParentWins ==
    \A X \in resolved, p \in Names :
        LET ext == data[X].extends IN
        (/\ Len(ext) = 2
         /\ p \notin DeclaredNames(X)
         /\ get(Heap, ext[1], p) # NoneProp
         /\ get(Heap, ext[2], p) # NoneProp
         /\ get(Heap, ext[1], p) # get(Heap, ext[2], p))
            => get(Heap, X, p) = get(Heap, ext[1], p)

\* C4: locally declared properties always win: in every state, every name
\* declared in S's own configuration is bound in S.properties to the
\* property owned by S that the constructor created.
C4_DeclaredPropertiesWin ==
    \A S \in Schemas :
        \A i \in 1..Len(data[S].properties) :
            get(Heap, S, data[S].properties[i].name)
                = InitProperties(data[S], S)[i]

\* a resolved schema that declares a name one of its parents has another
\* property for
C4_Witness ==
    \E S \in resolved, n \in Names :
        /\ n \in DeclaredNames(S)
        /\ \E parent \in extends[S] :
              /\ get(Heap, parent, n) # NoneProp
              /\ get(Heap, parent, n) # get(Heap, S, n)

\* C5: after generate() on S has completed, S.schemata is exactly S and the
\* schemas reachable from S through extends, and S.names the names of these.
C5_SchemataIsAncestorClosure ==
    \A S \in resolved :
        /\ schemata[S] = {S} \cup Ancestors(S)
        /\ names[S] = {S} \cup Ancestors(S)

\* the chain Thing <- A <- B resolved (Thing, LegalEntity, Person)
C5_Witness ==
    /\ data["A"].extends = <<"Thing">>
    /\ data["B"].extends = <<"A">>
    /\ "B" \in resolved
    /\ schemata["B"] = {"B", "A", "Thing"}
    /\ names["B"] = {"B", "A", "Thing"}

\* C6: once generate() on P has completed, P is a member of A.descendants
\* for every A reachable from P through extends, in that state and in
\* every later one.
C6_DescendantsOfAncestors ==
    \A P \in resolved : \A A \in Ancestors(P) : P \in descendants[A]

\* the diamond resolved: X is a descendant of the root through both parents
C6_Witness ==
    /\ data["X"].extends = <<"A", "B">>
    /\ "X" \in resolved
    /\ "Thing" \in Ancestors("X")
    /\ "X" \in descendants["Thing"]

\* the stub _add_reverse synthesizes on schema for the property other
Stub(schema, name, other) == Property(schema, name, ReverseData(other))

\* two declared properties of two schemas with a reverse link of one name
\* onto one schema, both resolved
TwoReverseLinks(o1, o2) ==
    /\ ~o1.stub /\ ~o2.stub
    /\ o1.schema # o2.schema
    /\ o1.reverse \in Names /\ o1.reverse = o2.reverse
    /\ o1.range \in Schemas /\ o1.range = o2.range
    /\ {o1.schema, o2.schema} \subseteq resolved

\* C7 as stated: with two such properties, the target's property of that
\* name is the stub synthesized for one of the two (the first resolved).
C7_TargetHoldsStubOfFirst ==
    \A o1, o2 \in Existing :
        TwoReverseLinks(o1, o2) =>
            get(Heap, o1.range, o1.reverse)
                \in {Stub(o1.range, o1.reverse, o1),
                     Stub(o1.range, o1.reverse, o2)}

\* C7 amended: a property of a schema is never replaced once it is there; a
\* call of _add_reverse on T with a name T already has returns the property
\* T has and leaves every properties mapping unchanged, and with a name T
\* does not have it returns a new stub that refers back to the calling
\* property and binds the name to it; so T's property of that name is the
\* stub of the first reverse link resolved only if T had none before.
C7_ReverseFirstWins ==
    [][/\ \A T \in Schemas, n \in Names :
             get(Heap, T, n) # NoneProp => get(Heap', T, n) = get(Heap, T, n)
       /\ \A T \in Schemas, n \in Names, other \in Existing :
             AddReverse(T, n, other) =>
                 LET r == add_reverse(Heap, T, n, other) IN
                 IF get(Heap, T, n) # NoneProp
                 THEN r.ret = get(Heap, T, n) /\ properties' = properties
                 ELSE /\ r.ret = Stub(T, n, other)
                      /\ get(Heap', T, n) = Stub(T, n, other)]_vars

\* two resolved reverse links onto one schema, which holds the stub of one
C7_Witness ==
    \E o1, o2 \in Existing :
        /\ TwoReverseLinks(o1, o2)
        /\ get(Heap, o1.range, o1.reverse) = Stub(o1.range, o1.reverse, o1)

\* every name in featured, caption and required is a key of properties
ListedResolve(h, schema) ==
    /\ Missing(h, schema, featured(schema)) = None
    /\ Missing(h, schema, caption(schema)) = None
    /\ Missing(h, schema, required(schema)) = None

\* C8: when generate() on S reaches its checks with a name of featured,
\* caption or required that is no key of S.properties it raises InvalidModel;
\* and once generate() on S has completed, every such name is a key of
\* S.properties, in that state and in every later one.
C8_ListedNamesResolve ==
    /\ [](\A S \in resolved : ListedResolve(Heap, S))
    /\ [][\A S \in Schemas :
             (/\ Len(featured(S)) + Len(caption(S)) + Len(required(S)) > 0
              /\ Generate(S)
              /\ LET h == resolve(Heap, S, 1)
                 IN  h.err = NoErr /\ ~ListedResolve(h, S))
                => /\ raised'.kind = "InvalidModel"
                   /\ raised'.schema = S]_vars

\* a schema with a listed name that has completed generate()
C8_Witness ==
    \E S \in resolved :
        Len(featured(S)) + Len(caption(S)) + Len(required(S)) > 0

\* C9: generate() on a schema whose extends names a schema the model does
\* not know fails with InvalidModel.
C9_UnknownParentIsInvalidModel ==
    [][\A S \in Schemas :
          (/\ Generate(S)
           /\ \E i \in 1..Len(data[S].extends) :
                 Model_get(data[S].extends[i]) = None)
             => raised'.kind = "InvalidModel"]_vars

\* C10 as stated: a schema whose edge block names a source, a target or
\* both has, once generate() completed, properties for both ends.
C10_EdgeBlockEndsResolve ==
    \A S \in resolved :
        (edge_source(S) # None \/ edge_target(S) # None)
            => /\ get(Heap, S, edge_source(S)) # NoneProp
               /\ get(Heap, S, edge_target(S)) # NoneProp

\* C10 amended: a schema whose edge block names both a source and a target
\* has, once generate() completed, properties for both ends, and generate()
\* raises InvalidModel when it reaches its checks with one of the two names
\* bound to no property; an edge block that names one end only is not checked.
C10_EdgeEndsResolve ==
    /\ [](\A S \in resolved :
             (edge_source(S) # None /\ edge_target(S) # None)
                => /\ get(Heap, S, edge_source(S)) # NoneProp
                   /\ get(Heap, S, edge_target(S)) # NoneProp)
    /\ [][\A S \in Schemas :
             (/\ edge_source(S) # None /\ edge_target(S) # None
              /\ Generate(S)
              /\ LET h == resolve(Heap, S, 1)
                 IN  /\ h.err = NoErr
                     /\ \/ get(h, S, edge_source(S)) = NoneProp
                        \/ get(h, S, edge_target(S)) = NoneProp)
                => /\ raised'.kind = "InvalidModel"
                   /\ raised'.schema = S]_vars

\* a schema with both edge ends named that has completed generate()
C10_Witness ==
    \E S \in resolved : edge_source(S) # None /\ edge_target(S) # None

\* the errors mapping the contract of validate describes, over the names of
\* S.properties only
ExpectedErrors(S, input) ==
    LET kind(n) == Property_validate(get(Heap, S, n), ensure_list(input, n))
        error(n) ==
            IF kind(n) # None THEN kind(n)
            ELSE IF ensure_list(input, n) = <<>>
                    /\ \E i \in 1..Len(required(S)) : required(S)[i] = n
                 THEN "Required"
                 ELSE None
    IN  [n \in {m \in Keys(properties[S]) : error(m) # None} |-> error(n)]

\* the outcome of validate the contract describes
ExpectedOutcome(S, input) ==
    IF DOMAIN ExpectedErrors(S, input) = {} THEN NoErr
    ELSE [kind |-> "InvalidData", what |-> "Entity validation failed",
          schema |-> S, errors |-> ExpectedErrors(S, input)]

\* the input without the names that are no properties of S
KnownOnly(S, input) ==
    [n \in DOMAIN input \cap Keys(properties[S]) |-> input[n]]

\* C11: validate(data) on a resolved schema S succeeds when the mapping of
\* the names of S.properties to their errors (the kind's error, otherwise
\* "Required" for a required name without values) is empty and otherwise
\* fails with InvalidData carrying that mapping; names of the input that are
\* no properties of S do not change the outcome; and what a validate() call
\* ended with is such an outcome.
C11_ValidateErrors ==
    /\ \A S \in resolved, input \in Inputs :
          LET outcome == validate(Heap, S, input).err IN
          /\ outcome = ExpectedOutcome(S, input)
          /\ outcome = validate(Heap, S, KnownOnly(S, input)).err
    /\ raised.kind = "InvalidData" =>
          \E input \in Inputs :
              raised = validate(Heap, raised.schema, input).err

\* validate({}) on a resolved schema with a required property has failed
\* with {"properties": {name: "Required"}}
C11_Witness ==
    /\ raised.kind = "InvalidData"
    /\ raised.schema \in resolved
    /\ required(raised.schema) # <<>>
    /\ raised = validate(Heap, raised.schema, <<>>).err
    /\ raised.errors = [n \in {required(raised.schema)[1]} |-> "Required"]

\* the names for which an outcome of validate records "Required"
ReportedRequired(err) == {n \in DOMAIN err.errors : err.errors[n] = "Required"}

\* C17: the required list is not inherited: validate() on S records
\* "Required" for a name only if S's own required list has it; when an
\* ancestor A of S lists a property n that S has too and S does not list it,
\* validate({}) on S records no "Required" for n although validate({}) on A
\* does.
C17_RequiredNotInherited ==
    /\ \A S \in resolved, input \in Inputs :
          ReportedRequired(validate(Heap, S, input).err)
              \subseteq ListedNames(required(S))
    /\ \A S \in resolved, A \in resolved, n \in Names :
          (/\ A \in schemata[S] /\ A # S
           /\ n \in ListedNames(required(A))
           /\ n \notin ListedNames(required(S))
           /\ get(Heap, S, n) # NoneProp /\ get(Heap, A, n) # NoneProp)
             => /\ n \notin ReportedRequired(validate(Heap, S, <<>>).err)
                /\ n \in ReportedRequired(validate(Heap, A, <<>>).err)

\* validate({}) on A has failed with "Required" for n, and its resolved
\* descendant B, which inherited n and lists nothing as required, passes
C17_Witness ==
    /\ raised.kind = "InvalidData"
    /\ \E S \in resolved, n \in Names :
          /\ raised.schema \in schemata[S] \ {S}
          /\ raised.schema \in resolved
          /\ n \in ReportedRequired(raised)
          /\ get(Heap, S, n) # NoneProp
          /\ required(S) = <<>>
          /\ validate(Heap, S, <<>>).err = NoErr

\* a schema that lies on a cycle of extends declarations
OnCycle(S) == S \in Ancestors(S)

\* C12 as stated: generate() on a schema that lies on a cycle of extends
\* never returns normally and never raises InvalidModel: it recurses until
\* the interpreter ends the recursion.
C12_CycleAlwaysRecurses ==
    [][\A S \in Schemas :
          (Generate(S) /\ OnCycle(S)) => raised'.kind = "RecursionError"]_vars

\* C12 amended: generate() on a schema that lies on a cycle of extends never
\* returns normally; it recurses until the interpreter ends the recursion,
\* unless an ancestor that lies on no cycle fails in its own generate(), and
\* then the call ends with that ancestor's InvalidModel.
C12_CycleRecursesOrParentFails ==
    [][\A S \in Schemas :
          (OnCycle(S) /\ Generate(S)) =>
              \/ raised'.kind = "RecursionError"
              \/ /\ raised'.kind = "InvalidModel"
                 /\ \E F \in Ancestors(S) :
                       ~OnCycle(F) /\ generate(Heap, F, 1).err = raised']_vars

\* generate() on a schema that lies on a cycle has exhausted the recursion
\* after it merged a parent
C12_Witness ==
    /\ raised.kind = "RecursionError"
    /\ OnCycle(raised.schema)
    /\ extends[raised.schema] # {}

\* the properties of S.properties that S owns: declared on S or synthesized
\* on S
Owned(S) == {prop \in Items(properties[S]) : prop.schema = S}

\* the entries a dictionary has under 'properties'
Entries(dict) == {dict.properties[i] : i \in 1..Len(dict.properties)}

\* to_dict() on S emits the property: S has it under its name and its
\* serialization is an entry of the dictionary
Emits(S, prop) ==
    /\ get(Heap, S, prop.name) = prop
    /\ Property_to_dict(prop) \in Entries(to_dict(Heap, S))

\* C13: to_dict() on a resolved schema S emits under 'properties' exactly
\* the properties of S.properties that S owns and none that S inherited;
\* every property of the model is emitted by exactly one schema, its owner;
\* and what a to_dict() call produced is that dictionary.
C13_ToDictEmitsOwned ==
    /\ \A S \in resolved :
          /\ Entries(to_dict(Heap, S)) = {Property_to_dict(prop) : prop \in Owned(S)}
          /\ Len(to_dict(Heap, S).properties) = Cardinality(Owned(S))
          /\ \A prop \in Items(properties[S]) \ Owned(S) : ~Emits(S, prop)
    /\ \A prop \in Existing :
          {S \in Schemas : Emits(S, prop)} = {prop.schema}
    /\ returned.op = "to_dict" =>
          returned.dict = to_dict(Heap, returned.schema)

\* to_dict() on a resolved schema that owns a property and inherited another
\* has produced a dictionary with the first alone
C13_Witness ==
    /\ returned.op = "to_dict"
    /\ returned.schema \in resolved
    /\ Owned(returned.schema) # {}
    /\ Items(properties[returned.schema]) \ Owned(returned.schema) # {}
    /\ Entries(returned.dict)
          = {Property_to_dict(prop) : prop \in Owned(returned.schema)}

\* C14: matchable_schemata on a resolved schema S yields nothing when S is
\* not matchable; when S is matchable it yields exactly the matchable schemas
\* among S.schemata and S.descendants, S itself among them; and what an
\* iteration of matchable_schemata produced is that set.
C14_MatchableSchemata ==
    /\ \A S \in resolved :
          IF matchable(S)
          THEN /\ \A T \in Schemas :
                     T \in matchable_schemata(Heap, S)
                        <=> /\ T \in schemata[S] \/ T \in descendants[S]
                            /\ matchable(T)
               /\ S \in matchable_schemata(Heap, S)
          ELSE matchable_schemata(Heap, S) = {}
    /\ returned.op = "matchable_schemata" =>
          returned.matchable = matchable_schemata(Heap, returned.schema)

\* matchable_schemata has yielded nothing on a resolved schema that is not
\* matchable and has a matchable ancestor and a matchable descendant
C14_Witness ==
    /\ returned.op = "matchable_schemata"
    /\ returned.schema \in resolved
    /\ ~matchable(returned.schema)
    /\ \E T \in schemata[returned.schema] \ {returned.schema} : matchable(T)
    /\ \E T \in descendants[returned.schema] : matchable(T)
    /\ returned.matchable = {}

\* C15: in every reachable state, after any calls of generate() and
\* _add_reverse(), also calls that ended in an error, every schema S is a
\* member of S.schemata and its name a member of S.names.
C15_SelfInSchemata ==
    \A S \in Schemas : S \in schemata[S] /\ S \in names[S]

\* a call has ended in an error after a schema took over a parent's schemata
C15_Witness ==
    /\ raised # NoErr
    /\ \E S \in Schemas \ resolved :
          /\ schemata[S] # {S} /\ S \in schemata[S]
          /\ names[S] # {S} /\ S \in names[S]

\* C16: every invocation of generate() on a schema of a model without a
\* cycle of extends ends by returning or by raising InvalidModel.
C16_EndsReturningOrInvalidModel ==
    [][\A S \in Schemas :
          Generate(S) => raised'.kind \in {None, "InvalidModel"}]_vars

\* the part of C16 about termination alone: no invocation of generate() on a
\* model of Spec, none of which has a cycle of extends, exhausts the depth
\* of recursion
C16_NeverExhaustsRecursion ==
    [][\A S \in Schemas :
          Generate(S) => raised'.kind # "RecursionError"]_vars

\* C18: descendants is the exact inverse of schemata: in every reachable
\* state P is in A.descendants if and only if A is in P.schemata and A is
\* not P.
C18_DescendantsInverseOfSchemata ==
    \A A \in Schemas, P \in Schemas :
        P \in descendants[A] <=> (A \in schemata[P] /\ A # P)

\* a call has failed after its schema registered with the ancestors it had
\* taken over so far
C18_Witness ==
    /\ raised.kind = "AttributeError"
    /\ \E P \in Schemas \ resolved, A \in Schemas :
          /\ P \in descendants[A] /\ A \in schemata[P]
          /\ descendants[P] = {}

\* C19: in every reachable state every entry n -> prop of S.properties has
\* prop.name = n, and prop's owning schema is a member of S.schemata.
C19_OwnersAreAncestors ==
    \A S \in Schemas :
        \A i \in 1..Len(properties[S]) :
            /\ \A j \in 1..Len(properties[S]) :
                  properties[S][j].name = properties[S][i].name => j = i
            /\ get(Heap, S, properties[S][i].name) = properties[S][i]
            /\ properties[S][i].schema \in schemata[S]

\* a schema holds a property it declared next to a reverse stub it inherited
\* from an ancestor
C19_Witness ==
    \E S \in Schemas :
        /\ \E prop \in Items(properties[S]) : prop.schema = S /\ ~prop.stub
        /\ \E prop \in Items(properties[S]) :
              /\ prop.schema # S /\ prop.stub
              /\ prop.schema \in schemata[S]

\* the errors the consistency checks of generate() raise
CheckFailures ==
    {"Missing featured property", "Missing caption property",
     "Missing required property", "Missing edge source", "Missing edge target"}

\* C20: a failed resolution is not rolled back: when generate() on S raises
\* InvalidModel in its consistency checks, the state is the one the call had
\* reached before the checks: the properties S inherited stay merged, S stays
\* in the descendants of all its ancestors, and the reverse stubs the
\* properties of S synthesized on other schemas stay.
C20_FailureNotRolledBack ==
    [][\A S \in Schemas :
          (/\ Len(featured(S)) + Len(caption(S)) + Len(required(S)) > 0
                \/ edge(S)
           /\ Generate(S)
           /\ raised'.kind = "InvalidModel" /\ raised'.schema = S
           /\ raised'.what \in CheckFailures)
             => /\ LET h == resolve(Heap, S, 1)
                   IN  /\ properties' = h.properties
                       /\ schemata' = h.schemata
                       /\ names' = h.names
                       /\ descendants' = h.descendants
                       /\ extends' = h.extends
                /\ S \notin resolved'
                /\ \A parent \in Parents(S) :
                      /\ parent \in extends'[S]
                      /\ \A prop \in Items(properties[parent]) :
                            prop.name \in Keys(properties'[S])
                /\ \A A \in Ancestors(S) : S \in descendants'[A]
                /\ \A prop \in Items(properties'[S]) :
                      (prop.reverse \in Names /\ prop.range \in Schemas)
                         => get(Heap', prop.range, prop.reverse) # NoneProp]_vars

\* generate() on A has failed in its checks; A is registered with its parent
\* and the stub a property of A synthesized on it is there
C20_Witness ==
    /\ raised.kind = "InvalidModel"
    /\ raised.what \in CheckFailures
    /\ raised.schema \notin resolved
    /\ \E A \in extends[raised.schema] :
          /\ raised.schema \in descendants[A]
          /\ \E prop \in Items(properties[raised.schema]) :
                /\ prop.schema = raised.schema /\ ~prop.stub
                /\ prop.range = A
                /\ get(Heap, A, prop.reverse) = Stub(A, prop.reverse, prop)

====
